---- MODULE Spec2Model ----
(***************************************************************************)
(* Model of palette_burndown.py: the paginated fetch of project items, the *)
(* flattening of their field values, the aggregation by closure date and   *)
(* the burndown trajectories, plus main, which chains them.                *)
(*                                                                         *)
(* Python values are records [t, s, n]: t is the type tag ("missing" for   *)
(* an absent dict key, "none", "str", "num"), s the string, n the number.  *)
(* Calendar dates are day numbers of January 2025 (2025-01-12 is 12).      *)
(* Item counts and field values are integers; the ideal line is computed   *)
(* in double precision, bit for bit.                                       *)
(***************************************************************************)
EXTENDS Integers, Sequences, FiniteSets, TLC

VARIABLES pc, cursor, all_items, requests, responses, status, items,
          processed_items, field_name, closed_per_day, start_date, end_date,
          total_value, ideal_burndown, actual_burndown, files

vars == <<pc, cursor, all_items, requests, responses, status, items,
          processed_items, field_name, closed_per_day, start_date, end_date,
          total_value, ideal_burndown, actual_burndown, files>>

fetchVars == <<cursor, all_items, requests, responses>>
chartVars == <<start_date, end_date, total_value, ideal_burndown, actual_burndown, files>>

(* ------------------------------ bounds -------------------------------- *)
MaxPages == 3
MaxItems == 2
MaxNorm == 3
SpanDays == 3

(* --------------------------- Python values ---------------------------- *)
Missing == [t |-> "missing", s |-> "", n |-> 0]
None == [t |-> "none", s |-> "", n |-> 0]
Str(x) == [t |-> "str", s |-> x, n |-> 0]
Num(x) == [t |-> "num", s |-> "", n |-> x]

\* dict.get(key, default): the default only when the key is absent
Get(v, default) == IF v.t = "missing" THEN default ELSE v

\* dict.get(key): None when the key is absent
GetOrNone(v) == Get(v, None)

\* Python truth value of None, a string or a number
Truthy(v) == \/ v.t = "str" /\ v.s # ""
             \/ v.t = "num" /\ v.n # 0

\* a or b
PyOr(a, b) == IF Truthy(a) THEN a ELSE b

(* --------------------------- configuration ---------------------------- *)
PROJECT_TITLE == "Palette"
START_DATE == 12
END_DATE == 25
TASKS_FILE == "burndown_tasks.png"
ESTIMATES_FILE == "burndown_estimates.png"
NullCursor == "null"

(* ------------------------------ raw items ----------------------------- *)
\* one entry of fieldValues.nodes
Entry(fieldTag, name, text, number) ==
    [t |-> "obj", field |-> [t |-> fieldTag, name |-> name], text |-> text, number |-> number]
NullEntry == [t |-> "null", field |-> [t |-> "missing", name |-> Missing],
              text |-> Missing, number |-> Missing]
EmptyEntry == Entry("missing", Missing, Missing, Missing)

FieldValues(nodes) == [t |-> "obj", nodes |-> nodes]
MissingFieldValues == [t |-> "missing", nodes |-> <<>>]
NullFieldValues == [t |-> "null", nodes |-> <<>>]

Content(title, state, closedAt) ==
    [t |-> "obj", title |-> title, state |-> state, closedAt |-> closedAt]
MissingContent == [t |-> "missing", title |-> Missing, state |-> Missing, closedAt |-> Missing]
NullContent == [t |-> "null", title |-> Missing, state |-> Missing, closedAt |-> Missing]

RawItem(id, fv, content) == [id |-> id, fieldValues |-> fv, content |-> content]

NumberEntry(name, x) == Entry("obj", Str(name), Missing, Num(x))
TextEntry(name, x) == Entry("obj", Str(name), Str(x), Missing)

\* the items the modelled endpoint serves for the target project
Item1 == RawItem("I1", FieldValues(<<NumberEntry("Estimate", 3), TextEntry("Status", "Done")>>),
                 Content(Str("one"), Str("CLOSED"), Str("2025-01-13T09:30:00Z")))
Item2 == RawItem("I2", FieldValues(<<TextEntry("Estimate", "abc")>>),
                 Content(Str("two"), Str("OPEN"), None))
Item3 == RawItem("I3", FieldValues(<<NumberEntry("Estimate", 2)>>),
                 Content(Str("three"), Str("CLOSED"), Str("2025-01-13")))
\* items of the other projects of the organization
DecoyItem == RawItem("D1", FieldValues(<<NumberEntry("Estimate", 5)>>),
                     Content(Str("decoy"), Str("CLOSED"), Str("2025-01-14T00:00:00Z")))

(* ------------------------------ endpoint ------------------------------ *)
Project(title, nodes, hasNextPage, endCursor) ==
    [title |-> title, nodes |-> nodes, hasNextPage |-> hasNextPage, endCursor |-> endCursor]

\* a response with a success status and the JSON body it carries
Response(errors, hasData, projects) ==
    [httpError |-> FALSE, errors |-> errors, hasData |-> hasData, projects |-> projects]

\* a response with a 4xx or 5xx status; its body is never read
HttpFailure == [httpError |-> TRUE, errors |-> FALSE, hasData |-> FALSE, projects |-> <<>>]

PageNodes == {<<>>, <<Item1>>, <<Item1, Item2>>, <<Item2, Item1>>, <<Item3, Item3>>}
Cursors == {"c1", "c2"}

TargetPages ==
    {Project(PROJECT_TITLE, n, TRUE, c) : n \in PageNodes, c \in Cursors}
    \cup {Project(PROJECT_TITLE, n, FALSE, c) : n \in PageNodes, c \in {"c1", NullCursor}}

DecoyCase == Project("palette", <<DecoyItem>>, TRUE, "c2")
DecoyOther == Project("Other", <<DecoyItem, DecoyItem>>, FALSE, NullCursor)

Responses ==
    {Response(FALSE, TRUE, <<p>>) : p \in TargetPages}
    \cup {Response(FALSE, TRUE, <<DecoyCase, p, DecoyOther>>) : p \in TargetPages}
    \cup {Response(FALSE, TRUE, <<>>), Response(FALSE, TRUE, <<DecoyCase, DecoyOther>>),
          Response(TRUE, FALSE, <<>>), Response(TRUE, TRUE, <<Project(PROJECT_TITLE, <<Item1>>, TRUE, "c1")>>),
          Response(FALSE, FALSE, <<>>), HttpFailure}

(* ------------------------- fetch_project_items ------------------------ *)
NoProject == Project("", <<>>, FALSE, NullCursor)

\* next((p for p in projects if p["title"] == project_title), None)
FindProject(projects, title) ==
    LET hits == {i \in 1..Len(projects) : projects[i].title = title}
    IN IF hits = {} THEN NoProject
       ELSE projects[CHOOSE i \in hits : \A j \in hits : i <= j]

\* a loop that overlooks top-level errors when the response also carries data
PageOutcomeIgnoringErrors(r, title) ==
    IF r.httpError THEN "HTTPError"
    ELSE IF ~r.hasData THEN (IF r.errors THEN "RuntimeError" ELSE "ValueError_data_missing")
    ELSE IF FindProject(r.projects, title) = NoProject THEN "ValueError_not_found"
    ELSE "page"

\* the checks of one loop iteration, in the order the code makes them
PageOutcome(r, title) ==
    IF r.httpError THEN "HTTPError"
    ELSE IF r.errors THEN "RuntimeError"
    ELSE IF ~r.hasData THEN "ValueError_data_missing"
    ELSE IF FindProject(r.projects, title) = NoProject THEN "ValueError_not_found"
    ELSE "page"

\* an accumulator that puts each new page in front of the earlier ones
ExtendInFront(acc, nodes) == nodes \o acc

\* all_items.extend(project_items["nodes"])
Extend(acc, nodes) == acc \o nodes

\* variables["cursor"] = project_items["pageInfo"]["endCursor"]
NextCursor(project) == project.endCursor

\* one iteration of the while loop: one request and its response r
FetchPage(r) ==
    /\ pc = "fetch"
    /\ Len(requests) < MaxPages
    /\ LET outcome == PageOutcome(r, PROJECT_TITLE)
           project == FindProject(r.projects, PROJECT_TITLE)
       IN /\ (Len(requests) = MaxPages - 1 /\ outcome = "page") => ~project.hasNextPage
          /\ requests' = Append(requests, cursor)
          /\ responses' = Append(responses, r)
          /\ IF outcome # "page"
             THEN /\ status' = outcome
                  /\ pc' = "failed"
                  /\ UNCHANGED <<cursor, all_items, items>>
             ELSE /\ all_items' = Extend(all_items, project.nodes)
                  /\ status' = status
                  /\ IF ~project.hasNextPage
                     THEN /\ pc' = "process"
                          /\ items' = all_items'
                          /\ cursor' = cursor
                     ELSE /\ pc' = "fetch"
                          /\ cursor' = NextCursor(project)
                          /\ items' = items
    /\ UNCHANGED <<processed_items, field_name, closed_per_day>>
    /\ UNCHANGED chartVars

FetchStep == \E r \in Responses : FetchPage(r)

NoResult == [ok |-> TRUE, err |-> "none", out |-> <<>>]
NoBucket == [ok |-> TRUE, err |-> "none", b |-> <<>>]

InitFetch ==
    /\ pc = "fetch"
    /\ cursor = NullCursor
    /\ all_items = <<>>
    /\ requests = <<>>
    /\ responses = <<>>
    /\ status = "running"
    /\ items = <<>>
    /\ processed_items = NoResult
    /\ field_name = None
    /\ closed_per_day = NoBucket
    /\ start_date = START_DATE
    /\ end_date = END_DATE
    /\ total_value = 0
    /\ ideal_burndown = <<>>
    /\ actual_burndown = <<>>
    /\ files = {}

SpecFetch == InitFetch /\ [][FetchStep]_vars

(* ---------------------------- process_items --------------------------- *)
EmptyFields == [k \in {} |-> None]

\* fields[field_name] = field_value
SetField(fields, key, value) ==
    [k \in DOMAIN fields \cup {key} |-> IF k = key THEN value ELSE fields[k]]

\* `if not field_metadata`: an absent key, null and the empty object are falsy
HasMetadata(entry) == entry.field.t = "obj"

\* field_metadata.get("name", "Unknown")
FieldName(entry) == Get(entry.field.name, Str("Unknown")).s

\* field.get("text") or field.get("number")
FieldValue(entry) == PyOr(GetOrNone(entry.text), GetOrNone(entry.number))

\* the loop over item.get("fieldValues", {}).get("nodes", []); a null entry
\* has no .get and raises AttributeError
RECURSIVE FieldsLoop(_, _, _)
FieldsLoop(nodes, i, fields) ==
    IF i > Len(nodes) THEN [ok |-> TRUE, fields |-> fields]
    ELSE IF nodes[i].t = "null" THEN [ok |-> FALSE, fields |-> fields]
    ELSE IF ~HasMetadata(nodes[i]) THEN FieldsLoop(nodes, i + 1, fields)
    ELSE FieldsLoop(nodes, i + 1, SetField(fields, FieldName(nodes[i]), FieldValue(nodes[i])))

Normalized(title, state, closed_at, fields) ==
    [title |-> title, state |-> state, closed_at |-> closed_at, fields |-> fields]

\* the body of the loop over items: [ok, rec]; a null fieldValues or a null
\* content has no .get and raises AttributeError
ProcessItem(item) ==
    LET fv == item.fieldValues
        extracted == IF fv.t = "null" THEN [ok |-> FALSE, fields |-> EmptyFields]
                     ELSE FieldsLoop(fv.nodes, 1, EmptyFields)
        content == item.content
    IN IF ~extracted.ok \/ content.t = "null"
       THEN [ok |-> FALSE, rec |-> Normalized(None, None, None, EmptyFields)]
       ELSE [ok |-> TRUE,
             rec |-> Normalized(Get(content.title, Str("No Title")),
                                Get(content.state, Str("Unknown")),
                                Get(content.closedAt, None),
                                extracted.fields)]

RECURSIVE ProcessLoop(_, _, _)
ProcessLoop(raw, i, acc) ==
    IF i > Len(raw) THEN [ok |-> TRUE, err |-> "none", out |-> acc]
    ELSE IF ~ProcessItem(raw[i]).ok THEN [ok |-> FALSE, err |-> "AttributeError", out |-> <<>>]
    ELSE ProcessLoop(raw, i + 1, Append(acc, ProcessItem(raw[i]).rec))

process_items(raw) == ProcessLoop(raw, 1, <<>>)

\* processed_items = process_items(items, "Sprint 4")
ProcessStep ==
    /\ pc = "process"
    /\ processed_items' = process_items(items)
    /\ pc' = IF processed_items'.ok THEN "calc_tasks" ELSE "failed"
    /\ status' = IF processed_items'.ok THEN status ELSE processed_items'.err
    /\ UNCHANGED <<items, field_name, closed_per_day>>
    /\ UNCHANGED fetchVars
    /\ UNCHANGED chartVars

\* raw items with malformed or ambiguous field data
Malformed1 == RawItem("M1", FieldValues(<<EmptyEntry, Entry("null", Missing, Str("x"), Missing),
                                          Entry("empty", Missing, Missing, Num(7)),
                                          Entry("obj", Missing, Missing, Num(9))>>),
                      Content(Str("m1"), Str("OPEN"), None))
Malformed2 == RawItem("M2", FieldValues(<<NumberEntry("Estimate", 1), NullEntry>>),
                      Content(Str("m2"), Str("OPEN"), None))
Malformed3 == RawItem("M3", NullFieldValues, Content(Str("m3"), Str("OPEN"), None))
Malformed4 == RawItem("M4", MissingFieldValues, MissingContent)
Malformed5 == RawItem("M5", FieldValues(<<>>), NullContent)
Both1 == RawItem("T1", FieldValues(<<Entry("obj", Str("Size"), Str("big"), Num(4))>>),
                 Content(Str("t1"), Str("OPEN"), None))
Both2 == RawItem("T2", FieldValues(<<Entry("obj", Str("Size"), Str(""), Num(4))>>),
                 Content(Str("t2"), Str("OPEN"), None))
EmptyText == RawItem("T3", FieldValues(<<TextEntry("Note", "")>>),
                     Content(Str("t3"), Str("OPEN"), None))
Repeated == RawItem("T4", FieldValues(<<NumberEntry("Estimate", 1), TextEntry("Estimate", "8"),
                                        NumberEntry("Estimate", 0)>>),
                    Content(Str("t4"), Str("CLOSED"), Str("2025-01-14T00:00:00Z")))
NullValues == RawItem("T5", FieldValues(<<Entry("obj", Str("Estimate"), None, None)>>),
                      Content(Missing, None, None))

RawItems == {Item1, Item2, Item3, Malformed1, Malformed2, Malformed3, Malformed4, Malformed5,
             Both1, Both2, EmptyText, Repeated, NullValues}

\* every sequence over S of length at most n
SeqsUpTo(S, n) == UNION {[1..k -> S] : k \in 0..n}

InitProcess ==
    /\ pc = "process"
    /\ cursor = NullCursor
    /\ all_items = <<>>
    /\ requests = <<>>
    /\ responses = <<>>
    /\ status = "running"
    /\ items \in SeqsUpTo(RawItems, MaxItems)
    /\ processed_items = NoResult
    /\ field_name = None
    /\ closed_per_day = NoBucket
    /\ start_date = START_DATE
    /\ end_date = END_DATE
    /\ total_value = 0
    /\ ideal_burndown = <<>>
    /\ actual_burndown = <<>>
    /\ files = {}

SpecProcess == InitProcess /\ [][ProcessStep]_vars

(* -------------------------- calculate_by_date ------------------------- *)
\* datetime.strptime(s, "%Y-%m-%dT%H:%M:%SZ").date(): the date part of a
\* timestamp in the literal format, ValueError for any other string
Strptime(s) ==
    CASE s = "2025-01-13T09:30:00Z" -> [ok |-> TRUE, date |-> 13]
      [] s = "2025-01-13T23:59:59Z" -> [ok |-> TRUE, date |-> 13]
      [] s = "2025-01-14T00:00:00Z" -> [ok |-> TRUE, date |-> 14]
      [] s = "2025-01-15T12:00:00Z" -> [ok |-> TRUE, date |-> 15]
      [] s = "2025-02-01T00:00:00Z" -> [ok |-> TRUE, date |-> 32]
      [] OTHER -> [ok |-> FALSE, date |-> 0]

\* float(value): a number, or a string that spells one; ValueError for any
\* other string, TypeError for None
ToFloat(v) ==
    IF v.t = "num" THEN [ok |-> TRUE, err |-> "none", x |-> v.n]
    ELSE IF v.t = "str" /\ v.s = "3" THEN [ok |-> TRUE, err |-> "none", x |-> 3]
    ELSE IF v.t = "str" /\ v.s = "8" THEN [ok |-> TRUE, err |-> "none", x |-> 8]
    ELSE IF v.t = "str" THEN [ok |-> FALSE, err |-> "ValueError", x |-> 0]
    ELSE [ok |-> FALSE, err |-> "TypeError", x |-> 0]

\* dict.get(key) as a tagged value
Lookup(fields, key) == IF key \in DOMAIN fields THEN fields[key] ELSE Missing

\* value = 1 if field_name is None else item["fields"].get(field_name, 0)
ItemValue(item, name) ==
    IF name = None THEN Num(1) ELSE Get(Lookup(item.fields, name.s), Num(0))

\* a test that forgets the item's state
ContributesInAnyState(item, value) ==
    Truthy(value) /\ Truthy(item.closed_at)

\* a test that forgets the value
ContributesEvenIfZero(item, value) ==
    item.state = Str("CLOSED") /\ Truthy(item.closed_at)

\* if value and item["state"] == "CLOSED" and item["closed_at"]
Contributes(item, value) ==
    Truthy(value) /\ item.state = Str("CLOSED") /\ Truthy(item.closed_at)

EmptyBucket == [d \in {} |-> 0]

\* an accumulation that subtracts the value
AccumulateNegated(bucket, date, x) ==
    [d \in DOMAIN bucket \cup {date} |->
        IF d = date THEN (IF date \in DOMAIN bucket THEN bucket[date] ELSE 0) - x
        ELSE bucket[d]]

\* closed_per_day[closed_date] = closed_per_day.get(closed_date, 0) + float(value)
Accumulate(bucket, date, x) ==
    [d \in DOMAIN bucket \cup {date} |->
        IF d = date THEN (IF date \in DOMAIN bucket THEN bucket[date] ELSE 0) + x
        ELSE bucket[d]]

RECURSIVE CalcLoop(_, _, _, _)
CalcLoop(norm, i, name, bucket) ==
    IF i > Len(norm) THEN [ok |-> TRUE, err |-> "none", b |-> bucket]
    ELSE LET item == norm[i]
             value == ItemValue(item, name)
         IN IF ~Contributes(item, value) THEN CalcLoop(norm, i + 1, name, bucket)
            ELSE IF ~Strptime(item.closed_at.s).ok
                 THEN [ok |-> FALSE, err |-> "ValueError", b |-> EmptyBucket]
            ELSE IF ~ToFloat(value).ok
                 THEN [ok |-> FALSE, err |-> ToFloat(value).err, b |-> EmptyBucket]
            ELSE CalcLoop(norm, i + 1, name,
                          Accumulate(bucket, Strptime(item.closed_at.s).date, ToFloat(value).x))

calculate_by_date(norm, name) == CalcLoop(norm, 1, name, EmptyBucket)

(* ----------------------- generate_burndown_chart ---------------------- *)
BURNDOWN_IMAGE_FILE_NAME == "palette_burndown.png"

\* IEEE 754 double precision, the arithmetic of Python's float. A natural
\* number is a sequence of limbs, lowest first and without high zeros; a
\* double is [neg, m, e]: the value m * 2^e with m of exactly MantissaBits
\* bits (Zero has m = <<>>)
MantissaBits == 53
Base == 2^13
LimbBits == CHOOSE k \in 1..30 : 2^k = Base

Highest(S) == CHOOSE i \in S : \A j \in S : j <= i
Lowest(S) == CHOOSE i \in S : \A j \in S : i <= j

Trim(a) ==
    LET nz == {i \in 1..Len(a) : a[i] # 0}
    IN IF nz = {} THEN <<>> ELSE SubSeq(a, 1, Highest(nz))

RECURSIVE FromInt(_)
FromInt(k) == IF k = 0 THEN <<>> ELSE <<k % Base>> \o FromInt(k \div Base)

RECURSIVE MulCarry(_, _, _, _, _)
MulCarry(a, k, i, carry, acc) ==
    IF i > Len(a) THEN Trim(acc \o FromInt(carry))
    ELSE MulCarry(a, k, i + 1, (a[i] * k + carry) \div Base,
                  Append(acc, (a[i] * k + carry) % Base))

\* a * k for a small k
MulSmall(a, k) == MulCarry(a, k, 1, 0, <<>>)

\* a * 2^s
ShiftLeft(a, s) ==
    IF a = <<>> THEN <<>>
    ELSE [i \in 1..(s \div LimbBits) |-> 0] \o MulSmall(a, 2^(s % LimbBits))

\* a \div 2^d
ShiftRight(a, d) ==
    LET q == d \div LimbBits
        r == d % LimbBits
    IN Trim([j \in 1..(Len(a) - q) |->
                (a[j + q] \div 2^r)
                + (IF j + q + 1 <= Len(a) THEN (a[j + q + 1] % 2^r) * 2^(LimbBits - r) ELSE 0)])

\* some bit of a below position d is set
AnyLowBit(a, d) ==
    LET q == d \div LimbBits
        r == d % LimbBits
    IN \/ \E j \in 1..Len(a) : j <= q /\ a[j] # 0
       \/ q + 1 <= Len(a) /\ a[q + 1] % 2^r # 0

\* the bit of a at position pos (position 0 is the lowest)
BitAt(a, pos) ==
    IF pos \div LimbBits + 1 > Len(a) THEN 0
    ELSE (a[pos \div LimbBits + 1] \div 2^(pos % LimbBits)) % 2

BitLength(a) ==
    IF a = <<>> THEN 0
    ELSE LimbBits * (Len(a) - 1) + Cardinality({k \in 0..(LimbBits - 1) : 2^k <= a[Len(a)]})

\* a + 1
IncBig(a) ==
    LET low == {i \in 1..Len(a) : a[i] # Base - 1}
    IN IF low = {} THEN [i \in 1..Len(a) |-> 0] \o <<1>>
       ELSE [i \in 1..Len(a) |-> IF i < Lowest(low) THEN 0
                                 ELSE IF i = Lowest(low) THEN a[i] + 1 ELSE a[i]]

RECURSIVE SubBorrow(_, _, _, _, _)
SubBorrow(a, b, i, borrow, acc) ==
    IF i > Len(a) THEN Trim(acc)
    ELSE LET v == a[i] - (IF i <= Len(b) THEN b[i] ELSE 0) - borrow
         IN SubBorrow(a, b, i + 1, IF v < 0 THEN 1 ELSE 0,
                      Append(acc, IF v < 0 THEN v + Base ELSE v))

\* a - b for a >= b
SubBig(a, b) == SubBorrow(a, b, 1, 0, <<>>)

\* -1, 0 or 1 as a < b, a = b or a > b
CmpBig(a, b) ==
    IF Len(a) # Len(b) THEN (IF Len(a) < Len(b) THEN -1 ELSE 1)
    ELSE LET diff == {i \in 1..Len(a) : a[i] # b[i]}
         IN IF diff = {} THEN 0
            ELSE IF a[Highest(diff)] > b[Highest(diff)] THEN 1 ELSE -1

\* the quotient and the remainder of a by a small n, limbs from the top
RECURSIVE DivLimbs(_, _, _, _, _)
DivLimbs(a, n, i, rem, acc) ==
    IF i = 0 THEN [q |-> Trim(acc), rem |-> rem]
    ELSE DivLimbs(a, n, i - 1, (rem * Base + a[i]) % n, <<(rem * Base + a[i]) \div n>> \o acc)

DivSmall(a, n) == DivLimbs(a, n, Len(a), 0, <<>>)

Zero == [neg |-> FALSE, m |-> <<>>, e |-> 0]

\* round to nearest, ties to even: the double nearest to (a + f) * 2^e,
\* where 0 <= f < 1 and sticky says whether f is not zero
RoundDouble(neg, a, e, sticky) ==
    IF a = <<>> THEN Zero
    ELSE IF BitLength(a) <= MantissaBits
    THEN [neg |-> neg, m |-> ShiftLeft(a, MantissaBits - BitLength(a)),
          e |-> e - (MantissaBits - BitLength(a))]
    ELSE LET d == BitLength(a) - MantissaBits
             kept == ShiftRight(a, d)
             up == /\ BitAt(a, d - 1) = 1
                   /\ (sticky \/ AnyLowBit(a, d - 1) \/ kept[1] % 2 = 1)
             r == IF up THEN IncBig(kept) ELSE kept
         IN IF BitLength(r) > MantissaBits
            THEN [neg |-> neg, m |-> ShiftRight(r, 1), e |-> e + d + 1]
            ELSE [neg |-> neg, m |-> r, e |-> e + d]

\* float(k) for an integer k >= 0
IntToDouble(k) == RoundDouble(FALSE, FromInt(k), 0, FALSE)

\* total_value / len(date_range): int / int, correctly rounded (total >= 0)
TrueDiv(total, n) ==
    LET d == DivSmall(ShiftLeft(FromInt(total), MantissaBits + 11), n)
    IN RoundDouble(FALSE, d.q, -(MantissaBits + 11), d.rem # 0)

\* (total_value / len(date_range)) * i, i an integer >= 0
Times(q, i) == RoundDouble(q.neg, MulSmall(q.m, i), q.e, FALSE)

\* total_value - (...), total an integer >= 0 and q >= 0
Minus(total, q) ==
    LET lo == IF q.e < 0 THEN q.e ELSE 0
        a == ShiftLeft(FromInt(total), -lo)
        b == ShiftLeft(q.m, q.e - lo)
    IN IF CmpBig(a, b) >= 0 THEN RoundDouble(FALSE, SubBig(a, b), lo, FALSE)
       ELSE RoundDouble(TRUE, SubBig(b, a), lo, FALSE)

\* [start_date + timedelta(days=i) for i in range((end_date - start_date).days + 1)]
DateRange(start, end) ==
    [i \in 1..(IF end - start + 1 > 0 THEN end - start + 1 ELSE 0) |-> start + (i - 1)]

\* a line corrected to reach zero on the last day
IdealReachingZero(total, n) ==
    [i \in 1..n |-> IF n = 1 THEN IntToDouble(total)
                    ELSE Minus(total, Times(TrueDiv(total, n - 1), i - 1))]

\* [total_value - (total_value / len(date_range)) * i for i in range(len(date_range))]
IdealBurndown(total, n) ==
    [i \in 1..n |-> Minus(total, Times(TrueDiv(total, n), i - 1))]

\* closed_per_day.get(current_date, 0)
CompletedOn(bucket, date) == IF date \in DOMAIN bucket THEN bucket[date] ELSE 0

\* remaining_value -= completed_today; actual_burndown.append(remaining_value)
RECURSIVE ActualLoop(_, _, _, _, _)
ActualLoop(bucket, dates, i, remaining, acc) ==
    IF i > Len(dates) THEN acc
    ELSE LET left == remaining - CompletedOn(bucket, dates[i])
         IN ActualLoop(bucket, dates, i + 1, left, Append(acc, left))

\* a loop that records the remainder before the day's subtraction
RECURSIVE ActualLoopBefore(_, _, _, _, _)
ActualLoopBefore(bucket, dates, i, remaining, acc) ==
    IF i > Len(dates) THEN acc
    ELSE ActualLoopBefore(bucket, dates, i + 1, remaining - CompletedOn(bucket, dates[i]),
                          Append(acc, remaining))

ActualBurndownBefore(bucket, dates, total) == ActualLoopBefore(bucket, dates, 1, total, <<>>)

ActualBurndown(bucket, dates, total) == ActualLoop(bucket, dates, 1, total, <<>>)

\* the trajectories and the file written by one call
Chart(bucket, start, end, total, filename) ==
    /\ ideal_burndown' = IdealBurndown(total, Len(DateRange(start, end)))
    /\ actual_burndown' = ActualBurndown(bucket, DateRange(start, end), total)
    /\ files' = files \cup {filename}

(* -------------------- the functions called on their own --------------- *)
FieldNames == {None, Str("Estimate"), Str("Points")}

CallCalc ==
    /\ pc = "calc"
    /\ \E name \in FieldNames :
          /\ field_name' = name
          /\ closed_per_day' = calculate_by_date(processed_items.out, name)
    /\ pc' = IF closed_per_day'.ok THEN "chart" ELSE "failed"
    /\ status' = IF closed_per_day'.ok THEN status ELSE closed_per_day'.err
    /\ UNCHANGED <<items, processed_items>>
    /\ UNCHANGED fetchVars
    /\ UNCHANGED chartVars

CallChart ==
    /\ pc = "chart"
    /\ Chart(closed_per_day.b, start_date, end_date, total_value, BURNDOWN_IMAGE_FILE_NAME)
    /\ pc' = "done"
    /\ UNCHANGED <<status, items, processed_items, field_name, closed_per_day,
                   start_date, end_date, total_value>>
    /\ UNCHANGED fetchVars

Field(name, value) == [k \in {name} |-> value]

NormItems ==
    {Normalized(Str("n1"), Str("CLOSED"), Str("2025-01-13T09:30:00Z"), Field("Estimate", Num(3))),
     Normalized(Str("n2"), Str("CLOSED"), Str("2025-01-13T23:59:59Z"), Field("Estimate", Num(2))),
     Normalized(Str("n3"), Str("CLOSED"), Str("2025-01-14T00:00:00Z"), Field("Estimate", Num(0))),
     Normalized(Str("n4"), Str("CLOSED"), Str("2025-01-15T12:00:00Z"), EmptyFields),
     Normalized(Str("n5"), Str("OPEN"), None, Field("Estimate", Num(5))),
     Normalized(Str("n6"), Str("Unknown"), Str("2025-01-13T09:30:00Z"), Field("Estimate", Num(1))),
     Normalized(Str("n7"), Str("CLOSED"), None, Field("Estimate", Num(4))),
     Normalized(Str("n8"), Str("CLOSED"), Str("2025-01-14T00:00:00Z"), Field("Estimate", Num(-2))),
     Normalized(Str("n9"), Str("CLOSED"), Str("2025-01-13"), Field("Estimate", Num(1))),
     Normalized(Str("n10"), Str("CLOSED"), Str("2025-01-14T00:00:00Z"), Field("Estimate", Str("abc"))),
     Normalized(Str("n11"), Str("closed"), Str("2025-01-14T00:00:00Z"), Field("Estimate", Num(1))),
     Normalized(Str("n12"), Str("CLOSED"), Str("2025-02-01T00:00:00Z"), Field("Estimate", Str("3"))),
     Normalized(Str("n13"), Str("CLOSED"), Str(""), Field("Points", Num(1))),
     Normalized(Str("n14"), Str("CLOSED"), Str("2025-01-14T00:00:00Z"), Field("Estimate", None))}

Totals == {0, 1, 2, 3, 5, 7}

InitCalc ==
    /\ pc = "calc"
    /\ cursor = NullCursor
    /\ all_items = <<>>
    /\ requests = <<>>
    /\ responses = <<>>
    /\ status = "running"
    /\ items = <<>>
    /\ processed_items \in {[ok |-> TRUE, err |-> "none", out |-> n] :
                              n \in SeqsUpTo(NormItems, MaxNorm)}
    /\ field_name = None
    /\ closed_per_day = NoBucket
    /\ start_date = START_DATE
    /\ end_date = START_DATE + SpanDays - 1
    /\ total_value = 2
    /\ ideal_burndown = <<>>
    /\ actual_burndown = <<>>
    /\ files = {}

SpecCalc == InitCalc /\ [][CallCalc \/ CallChart]_vars

Days == (START_DATE - 1)..(START_DATE + SpanDays)
BucketValues == {1, 2}
Buckets ==
    UNION {[S -> BucketValues] : S \in SUBSET Days}
    \cup {(START_DATE :> -1), (START_DATE :> -2) @@ (START_DATE + 1 :> 7)}

InitChart ==
    /\ pc = "chart"
    /\ cursor = NullCursor
    /\ all_items = <<>>
    /\ requests = <<>>
    /\ responses = <<>>
    /\ status = "running"
    /\ items = <<>>
    /\ processed_items = NoResult
    /\ field_name = None
    /\ closed_per_day \in {[ok |-> TRUE, err |-> "none", b |-> b] : b \in Buckets}
    /\ start_date \in Days
    /\ end_date \in {d \in Days : d >= start_date}
    /\ total_value \in Totals
    /\ ideal_burndown = <<>>
    /\ actual_burndown = <<>>
    /\ files = {}

SpecChart == InitChart /\ [][CallChart]_vars

(* -------------------------------- main -------------------------------- *)
\* total_tasks = len(processed_items); closed_tasks_per_day = calculate_by_date(processed_items)
CalcTasks ==
    /\ pc = "calc_tasks"
    /\ total_value' = Len(processed_items.out)
    /\ field_name' = None
    /\ closed_per_day' = calculate_by_date(processed_items.out, None)
    /\ pc' = IF closed_per_day'.ok THEN "chart_tasks" ELSE "failed"
    /\ status' = IF closed_per_day'.ok THEN status ELSE closed_per_day'.err
    /\ UNCHANGED <<items, processed_items, start_date, end_date, ideal_burndown,
                   actual_burndown, files>>
    /\ UNCHANGED fetchVars

\* generate_burndown_chart(closed_tasks_per_day, ..., "burndown_tasks.png", "blue")
ChartTasks ==
    /\ pc = "chart_tasks"
    /\ Chart(closed_per_day.b, START_DATE, END_DATE, total_value, TASKS_FILE)
    /\ pc' = "total_estimate"
    /\ UNCHANGED <<status, items, processed_items, field_name, closed_per_day,
                   start_date, end_date, total_value>>
    /\ UNCHANGED fetchVars

\* sum(float(item["fields"].get("Estimate", 0)) for item in processed_items
\*     if "Estimate" in item["fields"])
RECURSIVE SumEstimates(_, _, _)
SumEstimates(norm, i, acc) ==
    IF i > Len(norm) THEN [ok |-> TRUE, err |-> "none", x |-> acc]
    ELSE IF "Estimate" \notin DOMAIN norm[i].fields THEN SumEstimates(norm, i + 1, acc)
    ELSE LET f == ToFloat(Get(Lookup(norm[i].fields, "Estimate"), Num(0)))
         IN IF ~f.ok THEN f ELSE SumEstimates(norm, i + 1, acc + f.x)

TotalEstimate ==
    /\ pc = "total_estimate"
    /\ LET total == SumEstimates(processed_items.out, 1, 0)
       IN /\ total_value' = IF total.ok THEN total.x ELSE total_value
          /\ pc' = IF total.ok THEN "calc_estimates" ELSE "failed"
          /\ status' = IF total.ok THEN status ELSE total.err
    /\ UNCHANGED <<items, processed_items, field_name, closed_per_day, start_date, end_date,
                   ideal_burndown, actual_burndown, files>>
    /\ UNCHANGED fetchVars

\* closed_estimates_per_day = calculate_by_date(processed_items, "Estimate")
CalcEstimates ==
    /\ pc = "calc_estimates"
    /\ field_name' = Str("Estimate")
    /\ closed_per_day' = calculate_by_date(processed_items.out, Str("Estimate"))
    /\ pc' = IF closed_per_day'.ok THEN "chart_estimates" ELSE "failed"
    /\ status' = IF closed_per_day'.ok THEN status ELSE closed_per_day'.err
    /\ UNCHANGED <<items, processed_items>>
    /\ UNCHANGED fetchVars
    /\ UNCHANGED chartVars

\* generate_burndown_chart(closed_estimates_per_day, ..., "burndown_estimates.png")
ChartEstimates ==
    /\ pc = "chart_estimates"
    /\ Chart(closed_per_day.b, START_DATE, END_DATE, total_value, ESTIMATES_FILE)
    /\ pc' = "done"
    /\ UNCHANGED <<status, items, processed_items, field_name, closed_per_day,
                   start_date, end_date, total_value>>
    /\ UNCHANGED fetchVars

Init == InitFetch

Next ==
    \/ FetchStep
    \/ ProcessStep
    \/ CalcTasks
    \/ ChartTasks
    \/ TotalEstimate
    \/ CalcEstimates
    \/ ChartEstimates

Spec == Init /\ [][Next]_vars

(* ======================= properties of the fetch ====================== *)
\* the positions of the projects of response r whose title is the target's
MatchingProjects(r) == {i \in 1..Len(r.projects) : r.projects[i].title = PROJECT_TITLE}

\* r is well-formed and carries the target project
Serves(r) == ~r.httpError /\ ~r.errors /\ r.hasData /\ MatchingProjects(r) # {}

\* the target project's page in a response that serves it
TargetOf(r) == r.projects[CHOOSE i \in MatchingProjects(r) : TRUE]

\* the item nodes of the first k pages, in page order
RECURSIVE ConcatPages(_, _)
ConcatPages(resps, k) ==
    IF k = 0 THEN <<>> ELSE ConcatPages(resps, k - 1) \o TargetOf(resps[k]).nodes

\* the responses so far are the P pages of a complete pagination
CompletePagination ==
    /\ Len(responses) >= 1
    /\ \A k \in 1..Len(responses) :
          /\ Serves(responses[k])
          /\ TargetOf(responses[k]).hasNextPage <=> k < Len(responses)

\* C1: when the endpoint serves the target project as P well-formed pages,
\* the first request carries the null cursor, each later request carries the
\* endCursor of the response before it, and the fetch returns exactly the
\* pages' item nodes concatenated in page order, with no item of any other
\* project.
C1_FetchReturnsAllPagesInOrder ==
    /\ Len(requests) = Len(responses)
    /\ \A k \in 1..Len(requests) :
          requests[k] = IF k = 1 THEN NullCursor ELSE TargetOf(responses[k - 1]).endCursor
    /\ CompletePagination =>
          /\ pc = "process"
          /\ status = "running"
          /\ items = ConcatPages(responses, Len(responses))
          /\ \A i \in 1..Len(items) : items[i] # DecoyItem

\* a three-page fetch has returned, with other projects listed beside the
\* target and two different cursors threaded
C1_Witness ==
    /\ pc = "process"
    /\ Len(responses) = 3
    /\ Len(items) >= 4
    /\ requests[2] # requests[3]
    /\ \E k \in 1..3 : Len(responses[k].projects) = 3

\* the body of a delivered response fails one of the three checks of the loop
Fails(r) == ~r.httpError /\ (r.errors \/ ~r.hasData \/ MatchingProjects(r) = {})

\* the errors that correspond to what is wrong with response r
ApplicableErrors(r) ==
    (IF r.errors THEN {"RuntimeError"} ELSE {})
    \cup (IF ~r.hasData THEN {"ValueError_data_missing"} ELSE {})
    \cup (IF r.hasData /\ MatchingProjects(r) = {} THEN {"ValueError_not_found"} ELSE {})

\* C2: a response with top-level errors, without the data envelope or without
\* a project of the target title ends the fetch at that page with the
\* corresponding error: it is the last response, no request follows it, and
\* the items of the earlier pages are not returned.
C2_FetchFailsAtFirstBadPage ==
    \A k \in 1..Len(responses) :
        Fails(responses[k]) =>
            /\ k = Len(responses)
            /\ Len(requests) = k
            /\ pc = "failed"
            /\ status \in ApplicableErrors(responses[k])
            /\ items = <<>>

\* the fetch failed on a later page, after items had been accumulated
C2_Witness ==
    /\ pc = "failed"
    /\ Len(responses) >= 2
    /\ Fails(responses[Len(responses)])
    /\ all_items # <<>>
    /\ items = <<>>

(* ==================== properties of process_items ===================== *)
\* the title the record of a raw item carries
TitleOf(item) ==
    IF item.content.t = "obj" THEN Get(item.content.title, Str("No Title")) ELSE Str("No Title")

\* C3: whatever the field data of the items (entries without metadata, empty
\* or null entries, missing or null fieldValues, missing or null content),
\* process_items returns one record per input item, the i-th from the i-th
\* item, and never aborts.
C3_ProcessKeepsEveryItem ==
    pc # "process" =>
        /\ processed_items.ok
        /\ Len(processed_items.out) = Len(items)
        /\ \A i \in 1..Len(items) : processed_items.out[i].title = TitleOf(items[i])

\* the entries of an item that carry field metadata and name the field
EntriesNamed(item, name) ==
    {j \in 1..Len(item.fieldValues.nodes) :
        /\ HasMetadata(item.fieldValues.nodes[j])
        /\ FieldName(item.fieldValues.nodes[j]) = name}

\* the text when a text is present, the number when none is
TextElseNumber(entry) == IF entry.text.t = "str" THEN entry.text ELSE GetOrNone(entry.number)

\* C4: the value kept under a field's name is the text of the last entry of
\* that name whenever it has a text (an empty one included), and its number
\* only when it has no text.
C4_TextWinsOverNumber ==
    (pc # "process" /\ processed_items.ok) =>
        \A i \in 1..Len(items) :
            \A j \in 1..Len(items[i].fieldValues.nodes) :
                HasMetadata(items[i].fieldValues.nodes[j]) =>
                    LET name == FieldName(items[i].fieldValues.nodes[j])
                        last == CHOOSE m \in EntriesNamed(items[i], name) :
                                    \A o \in EntriesNamed(items[i], name) : o <= m
                    IN /\ name \in DOMAIN processed_items.out[i].fields
                       /\ processed_items.out[i].fields[name]
                             = TextElseNumber(items[i].fieldValues.nodes[last])

(* =================== properties of calculate_by_date ================== *)
\* the aggregation has returned a bucket
HasBucket == pc \in {"chart", "done"} /\ closed_per_day.ok

\* the items whose state is exactly CLOSED and whose closure timestamp has
\* the date part d
ClosedOn(norm, d) ==
    {i \in 1..Len(norm) :
        /\ norm[i].state = Str("CLOSED")
        /\ norm[i].closed_at.t = "str"
        /\ Strptime(norm[i].closed_at.s).ok
        /\ Strptime(norm[i].closed_at.s).date = d}

\* every date part some item's closure timestamp has
DatesOf(norm) ==
    {Strptime(norm[i].closed_at.s).date :
        i \in {j \in 1..Len(norm) : norm[j].closed_at.t = "str" /\ Strptime(norm[j].closed_at.s).ok}}

\* C5: with no field name the bucket's keys are exactly the dates on which a
\* CLOSED item with a closure timestamp was closed, in or out of the chart's
\* range, and the value at a date is the number of those items; items in any
\* other state or without a timestamp contribute nothing.
C5_CountBucket ==
    (HasBucket /\ field_name = None) =>
        LET norm == processed_items.out
            b == closed_per_day.b
        IN /\ DOMAIN b = {d \in DatesOf(norm) : ClosedOn(norm, d) # {}}
           /\ \A d \in DOMAIN b : b[d] = Cardinality(ClosedOn(norm, d))

\* two items were counted on one date, one on a date outside the chart's range
C5_Witness ==
    /\ HasBucket
    /\ field_name = None
    /\ \E d \in DOMAIN closed_per_day.b : closed_per_day.b[d] = 2
    /\ \E d \in DOMAIN closed_per_day.b : d > end_date

\* the items closed on d that have a truthy value of the named field
ClosedWith(norm, d, name) ==
    {i \in ClosedOn(norm, d) : name \in DOMAIN norm[i].fields /\ Truthy(norm[i].fields[name])}

\* the sum of the named field over the items of ClosedWith among the first k
RECURSIVE SumField(_, _, _, _)
SumField(norm, d, name, k) ==
    IF k = 0 THEN 0
    ELSE SumField(norm, d, name, k - 1)
         + (IF k \in ClosedWith(norm, d, name) THEN ToFloat(norm[k].fields[name]).x ELSE 0)

\* C6: with a field name the bucket's keys are exactly the dates on which a
\* CLOSED item with a non-zero value of the field was closed, and the value at
\* a date is the sum of those values; an item without the field or with a
\* zero or falsy value contributes nothing, not even a key.
C6_FieldBucket ==
    (HasBucket /\ field_name # None) =>
        LET norm == processed_items.out
            b == closed_per_day.b
        IN /\ DOMAIN b = {d \in DatesOf(norm) : ClosedWith(norm, d, field_name.s) # {}}
           /\ \A d \in DOMAIN b : b[d] = SumField(norm, d, field_name.s, Len(norm))

\* two estimates were summed on one date and a zero estimate closed on
\* another date left no key
C6_Witness ==
    /\ HasBucket
    /\ field_name = Str("Estimate")
    /\ \E d \in DOMAIN closed_per_day.b : closed_per_day.b[d] = 5
    /\ \E i \in 1..Len(processed_items.out) :
          /\ processed_items.out[i].fields = Field("Estimate", Num(0))
          /\ processed_items.out[i].state = Str("CLOSED")
          /\ Strptime(processed_items.out[i].closed_at.s).ok
          /\ Strptime(processed_items.out[i].closed_at.s).date \notin DOMAIN closed_per_day.b

\* consecutive points of the actual trajectory never rise
NonIncreasing(points) == \A i \in 1..(Len(points) - 1) : points[i + 1] <= points[i]

NonNegative(b) == \A d \in DOMAIN b : b[d] >= 0

\* C9 as stated: every value of every bucket is non-negative, so the actual
\* trajectory never rises.
C9_Original ==
    /\ HasBucket => NonNegative(closed_per_day.b)
    /\ (HasBucket /\ pc = "done") => NonIncreasing(actual_burndown)

\* no CLOSED item with a closure timestamp has a negative value of the field
NoNegativeValue(norm, name) ==
    \A i \in 1..Len(norm) :
        (Contributes(norm[i], ItemValue(norm[i], name)) /\ ToFloat(ItemValue(norm[i], name)).ok)
            => ToFloat(ItemValue(norm[i], name)).x >= 0

\* C9 amended: the values of a count bucket are non-negative, and those of a
\* field bucket are when no contributing field value is negative; the actual
\* trajectory computed from a bucket without negative values never rises.
C9_Amended ==
    /\ (HasBucket /\ (field_name = None \/ NoNegativeValue(processed_items.out, field_name)))
          => NonNegative(closed_per_day.b)
    /\ (HasBucket /\ pc = "done" /\ NonNegative(closed_per_day.b))
          => NonIncreasing(actual_burndown)

\* a chart was computed from an estimate bucket and its line fell
C9_Witness ==
    /\ HasBucket
    /\ pc = "done"
    /\ field_name = Str("Estimate")
    /\ NonNegative(closed_per_day.b)
    /\ \E i \in 1..(Len(actual_burndown) - 1) : actual_burndown[i + 1] < actual_burndown[i]

(* ================ properties of generate_burndown_chart =============== *)
\* the bucket values of the first k days of the range
RECURSIVE CompletedThrough(_, _, _)
CompletedThrough(b, start, k) ==
    IF k = 0 THEN 0
    ELSE CompletedThrough(b, start, k - 1)
         + (IF start + k - 1 \in DOMAIN b THEN b[start + k - 1] ELSE 0)

\* the bucket without its entries outside the range
InRange(b, start, end) == [d \in {x \in DOMAIN b : start <= x /\ x <= end} |-> b[d]]

\* C7: the actual trajectory has one point per day of the range, the i-th
\* being the total less the bucket values of the days up to it; entries
\* outside the range change nothing, the remainder is not clamped, and an
\* empty bucket gives the total on every day.
C7_ActualTrajectory ==
    pc = "done" =>
        LET b == closed_per_day.b
            n == end_date - start_date + 1
        IN /\ Len(actual_burndown) = n
           /\ \A i \in 1..n :
                 actual_burndown[i] = total_value - CompletedThrough(b, start_date, i)
           /\ actual_burndown
                 = ActualBurndown(InRange(b, start_date, end_date),
                                  DateRange(start_date, end_date), total_value)
           /\ (DOMAIN b = {}) => \A i \in 1..n : actual_burndown[i] = total_value
           /\ (b = (13 :> 2) @@ (15 :> 1) /\ total_value = 5 /\ start_date = 12 /\ end_date = 14)
                 => actual_burndown = <<5, 3, 3>>

\* the instance of the claim has been charted
C7_Witness ==
    /\ pc = "done"
    /\ closed_per_day.b = (13 :> 2) @@ (15 :> 1)
    /\ total_value = 5
    /\ start_date = 12
    /\ end_date = 14
    /\ actual_burndown = <<5, 3, 3>>

\* the value of double x is exactly num / den (num >= 0, den > 0)
ExactlyRatio(x, num, den) ==
    /\ ~x.neg
    /\ LET lo == IF x.e < 0 THEN x.e ELSE 0
       IN ShiftLeft(MulSmall(x.m, den), x.e - lo) = ShiftLeft(FromInt(num), -lo)

\* the value of double x is within T * 2^-51 of num / den
WithinRounding(x, num, den, T) ==
    /\ ~x.neg
    /\ LET lo == IF x.e < 0 THEN x.e ELSE 0
           a == ShiftLeft(MulSmall(x.m, den), x.e - lo)
           b == ShiftLeft(FromInt(num), -lo)
           gap == IF CmpBig(a, b) >= 0 THEN SubBig(a, b) ELSE SubBig(b, a)
       IN CmpBig(ShiftLeft(gap, 51), ShiftLeft(FromInt(T * den), -lo)) <= 0

\* C10 as stated: over a range of N >= 1 days the ideal trajectory has N
\* points, ideal[i] = T - (T/N)*i: it starts at T, consecutive points differ
\* by exactly T/N, and it ends at exactly T/N, which is zero only when T is.
C10_Original ==
    (pc = "done" /\ end_date - start_date + 1 >= 1) =>
        LET n == end_date - start_date + 1
            T == total_value
        IN /\ Len(ideal_burndown) = n
           /\ ideal_burndown[1] = IntToDouble(T)
           /\ \A i \in 0..(n - 1) : ExactlyRatio(ideal_burndown[i + 1], T * (n - i), n)
           /\ ideal_burndown[n] = TrueDiv(T, n)
           /\ (ideal_burndown[n] = Zero) <=> (T = 0)

\* C10 amended: the ideal trajectory has N points, starts at exactly T, and
\* its i-th point is the double-precision result of T - (T/N)*i, which is
\* T*(N-i)/N up to rounding (within T * 2^-51) and exactly that whenever
\* N divides T; the last point is T/N up to rounding, zero only when T is.
C10_IdealTrajectory ==
    (pc = "done" /\ end_date - start_date + 1 >= 1) =>
        LET n == end_date - start_date + 1
            T == total_value
        IN /\ Len(ideal_burndown) = n
           /\ ideal_burndown[1] = IntToDouble(T)
           /\ \A i \in 0..(n - 1) :
                 /\ WithinRounding(ideal_burndown[i + 1], T * (n - i), n, T)
                 /\ (T % n = 0) => ExactlyRatio(ideal_burndown[i + 1], T * (n - i), n)
           /\ (ideal_burndown[n] = Zero) <=> (T = 0)

\* a three-day line from 5 has ended one rounding step away from 5/3
C10_Witness ==
    /\ pc = "done"
    /\ end_date - start_date + 1 = 3
    /\ total_value = 5
    /\ ideal_burndown[3] # TrueDiv(5, 3)
    /\ WithinRounding(ideal_burndown[3], 5, 3, 5)

(* ========================== properties of main ======================== *)
\* C8: a run that ends with an error has written neither chart file.
C8_NoChartOnFailure ==
    pc = "failed" => (TASKS_FILE \notin files /\ ESTIMATES_FILE \notin files)

====
